---- MODULE Spec2Model ----
(***************************************************************************)
(* Lemire's bounded uniform sampler, src/lemire_rng.c.                     *)
(*                                                                         *)
(* TLC's integers are 32-bit signed, so a uint32_t or uint64_t value is    *)
(* modelled as the sequence of its bits, least significant bit first: a    *)
(* uint32_t is a sequence of WordBits bits, a uint64_t one of 2*WordBits.  *)
(* Every arithmetic operator below works on such sequences and takes its   *)
(* width from the length of its operands, as the C operators take theirs   *)
(* from the operand types.                                                 *)
(***************************************************************************)
EXTENDS Integers, Sequences, FiniteSets

\* Width of uint32_t.
WordBits == 32

\* The largest value of rand() the code assumes: 2^31 - 1.
RAND_MAX == 2147483647

\* The range main() asks for.
MainRange == 12345

\* Draws the source delivers to one call before it delivers one that is
\* accepted.
MaxDraws == 3

\* The ranges 0..MaxSmall, and the ranges within MaxSmall of 2^31 and of 2^32,
\* are tried.
MaxSmall == 3

\* Word width of the scaled-down build, in which every range and every draw
\* is tried.
ScaledBits == 4

VARIABLES
    range,      \* the argument of lemire_rng
    result,     \* *result, the caller's variable
    ret,        \* the value lemire_rng returned, -1 while it has not returned
    n, i, j,    \* the locals of lemire_rng, <<>> while unassigned
    rejection_interval_upper_bound,     \* likewise
    pc,         \* where lemire_rng stands
    draws,      \* calls of get_random_uniform_32bits_integer made so far
    drawn       \* the values those calls returned, in order

vars == <<range, result, ret, n, i, j, rejection_interval_upper_bound,
          pc, draws, drawn>>

-----------------------------------------------------------------------------
(* Unsigned fixed-width arithmetic of C on bit sequences.                  *)

Zeros(w) == [k \in 1..w |-> 0]

\* (uintW_t)k for an int k >= 0: the low w bits of k.
ToWord(k, w) == [p \in 1..w |-> IF p > 31 THEN 0 ELSE (k \div 2^(p - 1)) % 2]

\* Conversion to a wider unsigned type.
ZeroExt(a, w) == a \o Zeros(w - Len(a))

\* Conversion to a narrower unsigned type keeps the low w bits.
Trunc(a, w) == SubSeq(a, 1, w)

\* a >> s and a << s on Len(a) bits.
ShiftRight(a, s) == SubSeq(a, s + 1, Len(a)) \o Zeros(s)
ShiftLeft(a, s) == Zeros(s) \o SubSeq(a, 1, Len(a) - s)

BitOr(a, b) == [k \in 1..Len(a) |-> IF a[k] = 1 \/ b[k] = 1 THEN 1 ELSE 0]
BitAnd(a, b) == [k \in 1..Len(a) |-> IF a[k] = 1 /\ b[k] = 1 THEN 1 ELSE 0]
BitNot(a) == [k \in 1..Len(a) |-> 1 - a[k]]

\* The value of the len bits k.. of a as an integer, 1 <= len <= 15.
RECURSIVE BitsVal(_, _, _)
BitsVal(a, k, len) ==
    IF len = 1 THEN a[k]
    ELSE LET h == len \div 2
         IN  BitsVal(a, k, h) + 2^h * BitsVal(a, k + h, len - h)

\* The arithmetic goes in chunks of at most 15 bits, so that the product of
\* two chunks plus a carry stays below 2^31.
ChunkLen(a, k) == IF Len(a) - k + 1 < 15 THEN Len(a) - k + 1 ELSE 15

\* Bits k.. of a + b + c, the carry into bit k being c; the carry out of the
\* top bit is dropped (arithmetic modulo 2^Len(a)).
RECURSIVE AddFrom(_, _, _, _)
AddFrom(a, b, k, c) ==
    IF k > Len(a) THEN <<>>
    ELSE LET len == ChunkLen(a, k)
             s == BitsVal(a, k, len) + BitsVal(b, k, len) + c
         IN  ToWord(s, len) \o AddFrom(a, b, k + len, s \div 2^len)

Add(a, b) == AddFrom(a, b, 1, 0)

\* Unary minus on an unsigned value: 2^Len(a) - a modulo 2^Len(a).
Neg(a) == AddFrom(BitNot(a), Zeros(Len(a)), 1, 1)

Sub(a, b) == AddFrom(a, BitNot(b), 1, 1)

\* a < b, unsigned, decided from bit k downwards.
RECURSIVE LessFrom(_, _, _)
LessFrom(a, b, k) ==
    IF k = 0 THEN FALSE
    ELSE LET len == IF k < 15 THEN k ELSE 15
             x == BitsVal(a, k - len + 1, len)
             y == BitsVal(b, k - len + 1, len)
         IN  IF x # y THEN x < y ELSE LessFrom(a, b, k - len)

Less(a, b) == LessFrom(a, b, Len(a))
GreaterEq(a, b) == ~Less(a, b)

\* Bits k.. of a * m + c for an integer m < 2^15, modulo 2^Len(a).
RECURSIVE MulSmallFrom(_, _, _, _)
MulSmallFrom(a, m, k, c) ==
    IF k > Len(a) THEN <<>>
    ELSE LET len == ChunkLen(a, k)
             p == BitsVal(a, k, len) * m + c
         IN  ToWord(p, len) \o MulSmallFrom(a, m, k + len, p \div 2^len)

\* a * (bits k.. of b) * 2^(k-1) modulo 2^Len(a), one chunk of b at a time.
RECURSIVE MulFrom(_, _, _)
MulFrom(a, b, k) ==
    IF k > Len(b) THEN Zeros(Len(a))
    ELSE LET len  == ChunkLen(b, k)
             m    == BitsVal(b, k, len)
             rest == MulFrom(a, b, k + len)
         IN  IF m = 0 THEN rest
             ELSE Add(ShiftLeft(MulSmallFrom(a, m, 1, 0), k - 1), rest)

Mul(a, b) == MulFrom(a, b, 1)

\* One step of long division: the remainder r of some x by b becomes the
\* remainder of 2x + bit. b and r have one bit more than the dividend, so the
\* doubling never overflows.
ModStep(r, bit, b) ==
    LET r2 == <<bit>> \o SubSeq(r, 1, Len(r) - 1)
    IN  IF Less(r2, b) THEN r2 ELSE Sub(r2, b)

\* Long division over the bits hi, hi-1, .., lo of a, entered with the
\* remainder r of the bits above hi. The bits are taken in two halves; the
\* remainder of the upper half is below b when the lower half starts.
RECURSIVE ModRange(_, _, _, _, _)
ModRange(a, b, lo, hi, r) ==
    IF lo = hi THEN ModStep(r, a[lo], b)
    ELSE LET mid == (lo + hi) \div 2
             r1  == ModRange(a, b, mid + 1, hi, r)
         IN  IF Less(r1, b) THEN ModRange(a, b, lo, mid, r1) ELSE r1

\* a % b, unsigned, b # 0.
Mod(a, b) ==
    Trunc(ModRange(a, ZeroExt(b, Len(a) + 1), 1, Len(a), Zeros(Len(a) + 1)),
          Len(a))

\* The w-bit value of the decimal numeral whose first k digits are d[1..k].
RECURSIVE FromDec(_, _, _)
FromDec(d, k, w) ==
    IF k = 0 THEN Zeros(w)
    ELSE Add(MulSmallFrom(FromDec(d, k - 1, w), 10, 1, 0), ToWord(d[k], w))

-----------------------------------------------------------------------------
(* The program.                                                            *)

\* get_random_uniform_32bits_integer, r1 and r2 being what its two calls of
\* rand() return and w the width of its result type.
get_random_uniform_32bits_integer(r1, r2, w) ==
    LET result1 == ToWord(r1, w)
    IN  BitOr(result1, ShiftLeft(BitAnd(ToWord(r2, w), ToWord(1, w)), w - 1))

\* A product formed on the operands' own width, as n * range is without the
\* conversion of range to uint64_t.
n_times_range_narrow(nn, rr) == ZeroExt(Mul(nn, rr), 2 * Len(nn))

\* const uint64_t n_times_range = n * (uint64_t)range;
n_times_range(nn, rr) ==
    Mul(ZeroExt(nn, 2 * Len(nn)), ZeroExt(rr, 2 * Len(nn)))

\* compute_interval with the two halves of the product stored the wrong way
\* round.
compute_interval_swapped(nn, rr) ==
    LET w == Len(nn)
        m == n_times_range(nn, rr)
    IN  [i |-> Trunc(m, w), j |-> Trunc(ShiftRight(m, w), w)]

\* compute_interval: the high half of the product goes to *i, the low half
\* to *j.
compute_interval(nn, rr) ==
    LET w == Len(nn)
        m == n_times_range(nn, rr)
    IN  [i |-> Trunc(ShiftRight(m, w), w), j |-> Trunc(m, w)]

\* if (range == 0)
is_zero(rr) == rr = Zeros(Len(rr))

\* Fast-accept tests that are not the code's: one that always passes, one
\* that never does, one against half the range.
fast_accept_always(jj, rr) == TRUE
fast_accept_never(jj, rr) == FALSE
fast_accept_half(jj, rr) == GreaterEq(jj, ShiftRight(rr, 1))

\* if (j >= range)
fast_accept(jj, rr) == GreaterEq(jj, rr)

\* The bound taken from the complement of range: (2^32 - 1 - range) % range.
rejection_bound_complement(rr) == Mod(BitNot(rr), rr)

\* (-range) % range
rejection_bound(rr) == Mod(Neg(rr), rr)

\* A loop test that never lets the loop exit.
rejected_always(jj, bound) == TRUE

\* while (j < rejection_interval_upper_bound)
rejected(jj, bound) == Less(jj, bound)

-----------------------------------------------------------------------------
(* The random source. rand() returns a value in 0..RAND_MAX; the 32-bit    *)
(* build is tried on the values below, the scaled-down build on all.       *)

rand_values(w) ==
    IF w = WordBits
    THEN {0, 1, 2, 347912, 695823, 715827883, 1073741824, RAND_MAX}
    ELSE 0..(2^(w - 1) - 1)

Draws32 ==
    {get_random_uniform_32bits_integer(r1, r2, WordBits) :
        r1 \in rand_values(WordBits), r2 \in rand_values(WordBits)}

DrawsScaled ==
    {get_random_uniform_32bits_integer(r1, r2, ScaledBits) :
        r1 \in rand_values(ScaledBits), r2 \in rand_values(ScaledBits)}

Source(w) == IF w = WordBits THEN Draws32 ELSE DrawsScaled

\* The ranges lemire_rng is called with in the 32-bit build.
Ranges32 ==
    LET W(k) == ToWord(k, WordBits)
        Top  == ShiftLeft(W(1), WordBits - 1)
    IN  {W(k) : k \in 0..MaxSmall}
        \cup {ShiftLeft(W(1), e) : e \in 0..(WordBits - 1)}
        \cup {W(MainRange)}
        \cup {Add(Top, W(k)) : k \in 1..MaxSmall}
        \cup {Sub(Top, W(1))}
        \cup {Neg(W(k)) : k \in 1..MaxSmall}

RangesScaled == {ToWord(k, ScaledBits) : k \in 0..(2^ScaledBits - 1)}

\* TLC evaluates an operator afresh at every use, and the arithmetic above is
\* slow, so what compute_interval and (-range) % range give is computed once
\* for every draw and range of the model, and looked up from then on.
IntervalTable ==
    {[n |-> p[1], range |-> p[2], iv |-> compute_interval(p[1], p[2])] :
        p \in (Draws32 \X Ranges32) \cup (DrawsScaled \X RangesScaled)}

BoundTable ==
    {[range |-> r, bound |-> rejection_bound(r)] :
        r \in {x \in Ranges32 \cup RangesScaled : ~is_zero(x)}}

\* compute_interval(d, rr, &i, &j)
interval_of(d, rr) ==
    (CHOOSE e \in IntervalTable : e.n = d /\ e.range = rr).iv

\* (-rr) % rr
bound_of(rr) == (CHOOSE e \in BoundTable : e.range = rr).bound

-----------------------------------------------------------------------------
(* lemire_rng, one action per stretch of code between two draws or tests.  *)

InitWith(ranges) ==
    /\ range \in ranges
    /\ result = Zeros(Len(range))
    /\ ret = -1
    /\ n = <<>>
    /\ i = <<>>
    /\ j = <<>>
    /\ rejection_interval_upper_bound = <<>>
    /\ pc = "entry"
    /\ draws = 0
    /\ drawn = <<>>

Init == InitWith(Ranges32)

InitScaled == InitWith(RangesScaled)

\* if (range == 0) return 1;
ZeroRange ==
    /\ pc = "entry"
    /\ is_zero(range)
    /\ ret' = 1
    /\ pc' = "done"
    /\ UNCHANGED <<range, result, n, i, j, rejection_interval_upper_bound,
                   draws, drawn>>

\* n = get_random_uniform_32bits_integer(); compute_interval(n, range, &i, &j);
\* with d what the source returns and iv what compute_interval stores.
Draw(d, iv) ==
    /\ n' = d
    /\ i' = iv.i
    /\ j' = iv.j
    /\ draws' = draws + 1
    /\ drawn' = Append(drawn, d)

\* The first draw taken without the range check before it.
FirstDrawUnchecked ==
    /\ pc = "entry"
    /\ \E d \in Source(Len(range)) :
          \E iv \in {interval_of(d, range)} : Draw(d, iv)
    /\ pc' = "fast_check"
    /\ UNCHANGED <<range, result, ret, rejection_interval_upper_bound>>

\* The first draw, after the range check.
FirstDraw ==
    /\ pc = "entry"
    /\ ~is_zero(range)
    /\ \E d \in Source(Len(range)) :
          \E iv \in {interval_of(d, range)} : Draw(d, iv)
    /\ pc' = "fast_check"
    /\ UNCHANGED <<range, result, ret, rejection_interval_upper_bound>>

\* if (j >= range) { *result = i; return 0; }
FastAccept ==
    /\ pc = "fast_check"
    /\ fast_accept(j, range)
    /\ result' = i
    /\ ret' = 0
    /\ pc' = "done"
    /\ UNCHANGED <<range, n, i, j, rejection_interval_upper_bound, draws, drawn>>

\* uint32_t rejection_interval_upper_bound = (-range) % range;
Threshold ==
    /\ pc = "fast_check"
    /\ ~fast_accept(j, range)
    /\ rejection_interval_upper_bound' = bound_of(range)
    /\ pc' = "loop"
    /\ UNCHANGED <<range, result, ret, n, i, j, draws, drawn>>

\* The loop body: the draw is rejected and another one is taken. The source
\* is fair: its MaxDraws-th draw, at the latest, is one the loop accepts.
Reject ==
    /\ pc = "loop"
    /\ rejected(j, rejection_interval_upper_bound)
    /\ \E d \in Source(Len(range)) :
          \E iv \in {interval_of(d, range)} :
             /\ Draw(d, iv)
             /\ \/ draws + 1 < MaxDraws
                \/ ~rejected(iv.j, rejection_interval_upper_bound)
    /\ UNCHANGED <<range, result, ret, rejection_interval_upper_bound, pc>>

\* The loop exits: *result = i; return 0;
Accept ==
    /\ pc = "loop"
    /\ ~rejected(j, rejection_interval_upper_bound)
    /\ result' = i
    /\ ret' = 0
    /\ pc' = "done"
    /\ UNCHANGED <<range, n, i, j, rejection_interval_upper_bound, draws, drawn>>

Next == ZeroRange \/ FirstDraw \/ FastAccept \/ Threshold \/ Reject \/ Accept

Spec == Init /\ [][Next]_vars

\* The program keeps running until it returns.
LiveSpec == Spec /\ WF_vars(Next)

\* The same program built with ScaledBits-bit words.
SpecScaled == InitScaled /\ [][Next]_vars

-----------------------------------------------------------------------------
(* Properties.                                                             *)

W32(k) == ToWord(k, WordBits)

\* 0xFFFFFFFF
Max32 == BitNot(Zeros(WordBits))

\* lemire_rng has returned 0.
Returned == pc = "done" /\ ret = 0

High(d) == interval_of(d, range).i
Low(d) == interval_of(d, range).j

\* 2^w mod rr for a w-bit rr # 0, computed on w + 1 bits, where 2^w fits.
Pow2ModRange(rr) ==
    LET w == Len(rr)
    IN  Trunc(Mod(Zeros(w) \o <<1>>, ZeroExt(rr, w + 1)), w)

\* Pow2ModRange, computed once for every range of the model.
ThresholdTable ==
    {[range |-> r, t |-> Pow2ModRange(r)] :
        r \in {x \in Ranges32 \cup RangesScaled : ~is_zero(x)}}

TrueThreshold(rr) == (CHOOSE e \in ThresholdTable : e.range = rr).t

\* rr is a power of two: exactly one of its bits is set.
IsPow2(rr) == Cardinality({k \in 1..Len(rr) : rr[k] = 1}) = 1

\* C1: whenever lemire_rng returns success, the value stored in *result is
\* below range, on the fast-accept return and on the return after the loop.
C1_RangeContainment == Returned => Less(result, range)

C1_Witness ==
    /\ Returned
    /\ draws >= 2
    /\ range[WordBits] = 1
    /\ ~is_zero(result)

\* C2: with range == 0 the call draws nothing from the source, at any point,
\* and what it returns is the non-zero error value.
C2_ZeroRange ==
    is_zero(range) =>
        /\ draws = 0
        /\ drawn = <<>>
        /\ pc \in {"entry", "done"}
        /\ pc = "done" => ret = 1

C2_Witness == is_zero(range) /\ pc = "done" /\ ret = 1 /\ draws = 0

\* C4: the call returns the high word of the first draw whose low word is at
\* least 2^32 mod range; every draw before it has its low word below that
\* threshold, and the draws consumed are exactly these, in order.
C4_RejectionCorrectness ==
    Returned =>
        LET t == TrueThreshold(range)
            k == Len(drawn)
        IN  /\ k >= 1
            /\ draws = k
            /\ \A m \in 1..(k - 1) : Less(Low(drawn[m]), t)
            /\ ~Less(Low(drawn[k]), t)
            /\ n = drawn[k]
            /\ result = High(drawn[k])

C4_Witness ==
    /\ Returned
    /\ draws = 3
    /\ drawn[1] # drawn[2]
    /\ ~is_zero(drawn[1])
    /\ ~is_zero(result)

\* C5: when the first draw has low >= range, the call returns success with
\* the high word of that draw, one draw is consumed, and the rejection bound
\* is never computed nor the loop entered.
C5_FastPath ==
    (drawn # <<>> /\ GreaterEq(Low(drawn[1]), range)) =>
        /\ draws = 1
        /\ pc \in {"fast_check", "done"}
        /\ rejection_interval_upper_bound = <<>>
        /\ pc = "fast_check" => ENABLED FastAccept
        /\ pc = "done" => ret = 0 /\ result = High(drawn[1])

C5_Witness ==
    /\ Returned
    /\ draws = 1
    /\ GreaterEq(j, range)
    /\ rejection_interval_upper_bound = <<>>
    /\ ~is_zero(result)

\* C6 as stated: range 12345 and first draw 0xFFFFFFFF give the product
\* 53016480846775, high word 12344, low word 4294963480, and the fast path
\* returns 12344.
C6_AsStated ==
    (Returned /\ range = W32(MainRange) /\ drawn = <<Max32>>) =>
        /\ n_times_range(n, range)
             = FromDec(<<5,3,0,1,6,4,8,0,8,4,6,7,7,5>>, 14, 2 * WordBits)
        /\ i = W32(12344)
        /\ j = FromDec(<<4,2,9,4,9,6,3,4,8,0>>, 10, WordBits)
        /\ GreaterEq(j, range)
        /\ rejection_interval_upper_bound = <<>>
        /\ result = W32(12344)

\* C6, amended: range 12345 and first draw 0xFFFFFFFF give the product
\* 53021371256775, high word 12344, low word 4294954951; the low word is at
\* least the range, so the fast path returns 12344.
C6_Example ==
    (Returned /\ range = W32(MainRange) /\ drawn = <<Max32>>) =>
        /\ n_times_range(n, range)
             = FromDec(<<5,3,0,2,1,3,7,1,2,5,6,7,7,5>>, 14, 2 * WordBits)
        /\ i = W32(12344)
        /\ j = FromDec(<<4,2,9,4,9,5,4,9,5,1>>, 10, WordBits)
        /\ GreaterEq(j, range)
        /\ rejection_interval_upper_bound = <<>>
        /\ result = W32(12344)

C6_Witness == Returned /\ range = W32(MainRange) /\ drawn = <<Max32>>

\* C7: for a range that is a power of two the rejection bound is 0, the loop
\* body never runs, and a call consumes one draw and returns its high word.
C7_PowerOfTwo ==
    IsPow2(range) =>
        /\ draws <= 1
        /\ pc = "loop" =>
              /\ is_zero(rejection_interval_upper_bound)
              /\ ~ENABLED Reject
              /\ ENABLED Accept
        /\ Returned => draws = 1 /\ result = High(drawn[1])

C7_Witness ==
    /\ IsPow2(range)
    /\ range[WordBits] = 1
    /\ Returned
    /\ is_zero(rejection_interval_upper_bound)
    /\ ~is_zero(result)

\* C10: the bound the code computes as (-range) % range on 32 bits equals
\* 2^32 mod range.
C10_Threshold ==
    pc = "loop" => rejection_interval_upper_bound = TrueThreshold(range)

C10_Witness ==
    /\ pc = "loop"
    /\ range[WordBits] = 1
    /\ ~IsPow2(range)
    /\ rejection_interval_upper_bound[WordBits - 1] = 1

\* The draws of the source that lemire_rng accepts for the range at hand,
\* each with the value it returns for it; the loop tests against the bound
\* the code has computed.
Accepted ==
    {<<d, High(d)>> :
        d \in {x \in Source(Len(range)) :
                 \/ fast_accept(Low(x), range)
                 \/ ~rejected(Low(x), rejection_interval_upper_bound)}}

\* C3: among all 2^w draws, the accepted ones are those with low at least
\* 2^w mod range, and every value below range is returned for the same number
\* of them, floor(2^w / range) (w the word width, every range and draw tried).
C3_Uniform ==
    (pc = "loop" /\ draws = 1) =>
        LET w == Len(range)
            t == TrueThreshold(range)
        IN  /\ Cardinality(Source(w)) = 2^w
            /\ \A d \in Source(w) :
                  (<<d, High(d)>> \in Accepted) <=> ~Less(Low(d), t)
            /\ \A v \in Source(w) :
                  Cardinality({a \in Accepted : a[2] = v})
                    = IF Less(v, range) THEN 2^w \div BitsVal(range, 1, w)
                      ELSE 0

C3_Witness ==
    /\ pc = "loop"
    /\ draws = 1
    /\ ~IsPow2(range)
    /\ ~is_zero(n)
    /\ Cardinality(Accepted) < 2^ScaledBits
    /\ BitsVal(range, 1, Len(range)) > 2

\* C8: every call returns, however many draws the source has rejected before
\* it delivers an accepted one; what is returned comes from a draw whose low
\* word is at least 2^32 mod range, never from a rejected one; and the
\* rejection zone is less than half of the 2^32 low words.
C8_Terminates ==
    /\ <>(pc = "done")
    /\ [](Returned => ~Less(j, TrueThreshold(range)) /\ result = i /\ n = drawn[draws])
    /\ [](pc = "loop" => rejection_interval_upper_bound[WordBits] = 0)

C8_Witness ==
    /\ Returned
    /\ draws = MaxDraws
    /\ \A m \in 1..(MaxDraws - 1) : Less(Low(drawn[m]), TrueThreshold(range))

\* C9: the bound is below the range, and the call returns what a sampler
\* without the fast-accept test returns on the same draws, the first draw the
\* loop test against (-range) % range lets through, after as many draws.
C9_FastAcceptIsOptimization ==
    /\ pc = "loop" => Less(rejection_interval_upper_bound, range)
    /\ Returned =>
          LET t == bound_of(range)
          IN  \E k \in 1..Len(drawn) :
                 /\ \A m \in 1..(k - 1) : rejected(Low(drawn[m]), t)
                 /\ ~rejected(Low(drawn[k]), t)
                 /\ k = draws
                 /\ k = Len(drawn)
                 /\ result = High(drawn[k])

C9_Witness ==
    /\ Returned
    /\ draws = 2
    /\ rejection_interval_upper_bound # <<>>
    /\ GreaterEq(j, range)

====
